---- MODULE Spec2Model ----
(***************************************************************************)
(* A model of src/text_classifier.py: the TextClassifier object (one       *)
(* immutable document), its preprocessing pipeline, its four views and its *)
(* metric methods.                                                         *)
(*                                                                         *)
(* Strings are sequences of one-character strings, so that strip(),        *)
(* lower(), isalpha() and the vowel filter are computed character by       *)
(* character.  The document is held as the stream of raw tokens that the   *)
(* external tokenizers cut it into; the external tagger, lemmatizer and    *)
(* pronouncing dictionary are small deterministic fixtures.  Floating      *)
(* point results are exact rationals <<numerator, denominator>>, or, for   *)
(* round(x, 3), an integer number of thousandths.                          *)
(***************************************************************************)
EXTENDS Integers, Sequences, FiniteSets, TLC

\* The longest document, in raw tokens.
MaxLen == 3

(***************************************************************************)
(* Characters and strings                                                  *)
(***************************************************************************)
LowerLetters == {"a", "b", "e", "o", "r", "s", "u", "w", "x", "y"}
UpperLetters == {"B", "O", "Y"}
Whitespace == {" "}

\* str.lower(), per character
lower_char(c) ==
    CASE c = "B" -> "b"
      [] c = "O" -> "o"
      [] c = "Y" -> "y"
      [] OTHER -> c

\* str.lower()
lower(word) == [i \in 1..Len(word) |-> lower_char(word[i])]

\* str.isalpha(): at least one character and every character a letter
isalpha(word) ==
    /\ Len(word) > 0
    /\ \A i \in 1..Len(word) : word[i] \in LowerLetters \cup UpperLetters

\* str.isdigit() of one character
isdigit(c) == c \in {"0", "1", "2"}

RECURSIVE lstrip(_)
lstrip(word) ==
    IF word # <<>> /\ Head(word) \in Whitespace THEN lstrip(Tail(word)) ELSE word

RECURSIVE rstrip(_)
rstrip(word) ==
    IF word # <<>> /\ word[Len(word)] \in Whitespace
    THEN rstrip(SubSeq(word, 1, Len(word) - 1))
    ELSE word

\* str.strip()
strip(word) == rstrip(lstrip(word))

(***************************************************************************)
(* The words of the fixtures                                               *)
(***************************************************************************)
w_was == <<"w", "a", "s">>
w_be == <<"b", "e">>
w_Be == <<"B", "e">>
w_wa == <<"w", "a">>
w_as == <<"a", "s">>
w_a == <<"a">>
w_Yx == <<"Y", "x">>
w_ye == <<"y", "e">>
w_Our == <<"O", "u", "r">>
w_our == <<"o", "u", "r">>
w_dot == <<".">>
w_padded_as == <<" ", "a", "s", " ">>
w_blank == <<" ">>

\* The raw tokens a document is made of, as the word tokenizer returns them.
RawTokens == {w_was, w_Be, w_padded_as, w_blank, w_dot}

\* The documents.
Documents == UNION {[1..n -> RawTokens] : n \in 0..MaxLen}

VARIABLES
    text,    \* self.__text: the document
    first,   \* the first call of a view made on the instance, with its result
    last     \* the most recent call made on the instance, with its result

vars == <<text, first, last>>

(***************************************************************************)
(* The external collaborators, as deterministic fixtures                   *)
(***************************************************************************)
\* sent_tokenize: a sentence ends after each terminator token; what follows
\* the last terminator is a sentence of its own.
RECURSIVE split_sents(_, _)
split_sents(rest, cur) ==
    IF rest = <<>>
    THEN (IF cur = <<>> THEN <<>> ELSE <<cur>>)
    ELSE IF Head(rest) = w_dot
         THEN <<Append(cur, Head(rest))>> \o split_sents(Tail(rest), <<>>)
         ELSE split_sents(Tail(rest), Append(cur, Head(rest)))

sent_tokenize(t) == split_sents(t, <<>>)

\* word_tokenize: a sentence is held as the raw tokens it is cut into.
word_tokenize(sent) == sent

\* The tag of a token, which depends on the token before it in the sentence.
tag_of(prev, tok) ==
    CASE tok = w_was -> "VBD"
      [] tok \in {w_be, w_Be} -> (IF prev = w_was THEN "VBN" ELSE "VB")
      [] tok = w_as -> "IN"
      [] tok = w_a -> "DT"
      [] tok = w_dot -> "."
      [] OTHER -> "NN"

TagSet == {"VBD", "VB", "VBN", "IN", "DT", ".", "NN"}

\* pos_tag: one (token, tag) pair per token, in order, for a whole sentence.
pos_tag(tokens) ==
    [i \in 1..Len(tokens) |->
        <<tokens[i], tag_of(IF i = 1 THEN <<>> ELSE tokens[i - 1], tokens[i])>>]

\* WordNetLemmatizer.lemmatize(word, pos): a form it does not know is echoed.
wordnet_lemmatize(word, pos) ==
    CASE pos = "v" /\ word = w_was -> w_be
      [] pos = "n" /\ word = w_was -> w_wa
      [] pos = "n" /\ word = w_as -> w_a
      [] OTHER -> word

\* cmudict.dict(): lower-cased word -> pronunciation variants -> phonemes
p_dict ==
    (w_was :> << << <<"W">>, <<"A", "A", "1">>, <<"Z">> >>,
                 << <<"W">>, <<"A", "H", "0">>, <<"Z">> >> >>)
    @@ (w_be :> << << <<"B">>, <<"I", "Y", "1">> >>,
                   << <<"B">>, <<"I", "Y", "0">> >> >>)
    @@ (w_as :> << << <<"A", "E", "1">>, <<"Z">> >> >>)
    @@ (w_a :> << << <<"A", "H", "0">> >>, << <<"E", "Y", "1">> >> >>)
    @@ (w_ye :> << << <<"Y">>, <<"I", "Y", "1">> >> >>)
    @@ (w_our :> << << <<"A", "W", "1">>, <<"E", "R", "0">> >>,
                    << <<"A", "W", "1">>, <<"R">> >>,
                    << <<"A", "A", "1">>, <<"R">> >> >>)

\* self.__vowels
vowels == {"a", "e", "i", "o", "u", "y"}

(***************************************************************************)
(* The preprocessing pipeline                                              *)
(***************************************************************************)
\* A plausible slip: the noun lemma is preferred whenever it differs.
lemmatize_noun_first(word) ==
    LET lemma == wordnet_lemmatize(word, "n") IN
    IF lemma = word THEN wordnet_lemmatize(word, "v") ELSE lemma

\* TextClassifier.__lemmatize
lemmatize(word) ==
    LET lemma == wordnet_lemmatize(word, "v") IN
    IF lemma = word THEN wordnet_lemmatize(word, "n") ELSE lemma

\* A plausible slip: tokens are stripped but the empty ones are kept.
strip_tokens_keep_empty(sent) ==
    [i \in 1..Len(word_tokenize(sent)) |-> strip(word_tokenize(sent)[i])]

\* line 51: [word.strip() for word in word_tokenize(sent) if word.strip()]
strip_tokens(sent) ==
    LET kept == SelectSeq(word_tokenize(sent), LAMBDA word : strip(word) # <<>>)
    IN  [i \in 1..Len(kept) |-> strip(kept[i])]

\* A plausible slip: the tokens are lemmatized first and tagged afterwards.
process_sent_lemma_first(sent, tagged, lemmatized) ==
    LET tokenized_sent == strip_tokens(sent)
        lemmas == [i \in 1..Len(tokenized_sent) |-> lemmatize(tokenized_sent[i])]
    IN  IF tagged
        THEN pos_tag(IF lemmatized THEN lemmas ELSE tokenized_sent)
        ELSE IF lemmatized THEN lemmas ELSE tokenized_sent

\* lines 51-58: one sentence, tokenized, then tagged and/or lemmatized
process_sent(sent, tagged, lemmatized) ==
    LET tokenized_sent == strip_tokens(sent)
    IN  IF tagged
        THEN LET tagged_sent == pos_tag(tokenized_sent)
             IN  IF lemmatized
                 THEN [i \in 1..Len(tagged_sent) |->
                          <<lemmatize(tagged_sent[i][1]), tagged_sent[i][2]>>]
                 ELSE tagged_sent
        ELSE IF lemmatized
             THEN [i \in 1..Len(tokenized_sent) |-> lemmatize(tokenized_sent[i])]
             ELSE tokenized_sent

\* A plausible slip: the yield of a word falls out of the inner loop, so only
\* the last word of each sentence is yielded.
RECURSIVE generate_last_word_only(_, _, _, _)
generate_last_word_only(sentences, is_sent, tagged, lemmatized) ==
    IF sentences = <<>>
    THEN <<>>
    ELSE LET tokenized_sent == process_sent(Head(sentences), tagged, lemmatized)
         IN  (IF is_sent
              THEN <<tokenized_sent>>
              ELSE IF tokenized_sent = <<>>
                   THEN <<>>
                   ELSE <<tokenized_sent[Len(tokenized_sent)]>>)
             \o generate_last_word_only(Tail(sentences), is_sent, tagged, lemmatized)

\* lines 50-64: everything the generator yields, in order
RECURSIVE generate(_, _, _, _)
generate(sentences, is_sent, tagged, lemmatized) ==
    IF sentences = <<>>
    THEN <<>>
    ELSE LET tokenized_sent == process_sent(Head(sentences), tagged, lemmatized)
         IN  (IF is_sent THEN <<tokenized_sent>> ELSE tokenized_sent)
             \o generate(Tail(sentences), is_sent, tagged, lemmatized)

\* TextClassifier.__preprocess_text, consumed to its end
preprocess_text(is_sent, tagged, lemmatized) ==
    generate(sent_tokenize(text), is_sent, tagged, lemmatized)

sents(lemmatized) == preprocess_text(TRUE, FALSE, lemmatized)
tagged_sents(lemmatized) == preprocess_text(TRUE, TRUE, lemmatized)
words(lemmatized) == preprocess_text(FALSE, FALSE, lemmatized)
tagged_words(lemmatized) == preprocess_text(FALSE, TRUE, lemmatized)

(***************************************************************************)
(* Arithmetic: exact rationals <<numerator, denominator>>, denominator > 0 *)
(***************************************************************************)
abs(n) == IF n < 0 THEN -n ELSE n

RECURSIVE gcd(_, _)
gcd(a, b) == IF b = 0 THEN a ELSE gcd(b, a % b)

rat_norm(q) ==
    LET g == gcd(abs(q[1]), q[2]) IN <<q[1] \div g, q[2] \div g>>

rat_add(p, q) == rat_norm(<<p[1] * q[2] + q[1] * p[2], p[2] * q[2]>>)

\* round(a / b, 3) in thousandths, for a >= 0 and b > 0: to the nearest, a tie
\* to the even one
round3(a, b) ==
    LET n == a * 1000
        q == n \div b
        r == n % b
    IN  IF 2 * r < b THEN q
        ELSE IF 2 * r > b THEN q + 1
        ELSE IF q % 2 = 0 THEN q ELSE q + 1

RECURSIVE sum(_)
sum(ns) == IF ns = <<>> THEN 0 ELSE Head(ns) + sum(Tail(ns))

\* What a method hands back: a value, or the exception it raises.
Returned(v) == [val |-> v, exc |-> "none"]
Raised(e) == [val |-> <<>>, exc |-> e]

(***************************************************************************)
(* The metrics                                                             *)
(***************************************************************************)
\* A plausible slip: the word is looked up and scanned as given.
count_syllables_no_lower(word) ==
    IF word \in DOMAIN p_dict
    THEN Len(SelectSeq(p_dict[word][1], LAMBDA phone : isdigit(phone[Len(phone)])))
    ELSE Len(SelectSeq(word, LAMBDA letter : letter \in vowels))

\* TextClassifier.count_syllables
count_syllables(word) ==
    LET w == lower(word)
    IN  IF w \in DOMAIN p_dict
        THEN Len(SelectSeq(p_dict[w][1], LAMBDA phone : isdigit(phone[Len(phone)])))
        ELSE Len(SelectSeq(w, LAMBDA letter : letter \in vowels))

\* A plausible slip: every token of the sentence is counted, not only the
\* alphabetic ones.
alpha_words_unfiltered(sent) == sent

\* line 150: [word for word in sent if word.isalpha()]
alpha_words(sent) == SelectSeq(sent, LAMBDA word : isalpha(word))

\* line 153: 206.835 - 1.015 * len(words) - 84.6 * (sum(syllables) / len(words))
sentence_score(ws) ==
    LET syllables == [i \in 1..Len(ws) |-> count_syllables(ws[i])]
    IN  rat_norm(<<206835 * Len(ws) - 1015 * Len(ws) * Len(ws) - 84600 * sum(syllables),
                   1000 * Len(ws)>>)

\* lines 149-153: the loop over the sentences
RECURSIVE reading_ease_loop(_, _)
reading_ease_loop(sentences, reading_ease) ==
    IF sentences = <<>>
    THEN reading_ease
    ELSE LET ws == alpha_words(Head(sentences))
         IN  reading_ease_loop(Tail(sentences),
                               IF ws # <<>>
                               THEN rat_add(reading_ease, sentence_score(ws))
                               ELSE reading_ease)

\* TextClassifier.calculate_sentence_reading_ease
calculate_sentence_reading_ease == Returned(reading_ease_loop(sents(FALSE), <<0, 1>>))

\* A plausible slip: the tags outside the set are the ones counted.
calculate_lexical_density_by_tags_inverted(tags_to_search) ==
    LET total_tags == Len(SelectSeq(tagged_words(FALSE),
                                    LAMBDA pair : pair[2] \notin tags_to_search))
        total_words == Len(tagged_words(FALSE))
    IN  IF total_words = 0
        THEN Raised("ZeroDivisionError")
        ELSE Returned(round3(total_tags * 100, total_words))

\* TextClassifier.calculate_lexical_density_by_tags
calculate_lexical_density_by_tags(tags_to_search) ==
    LET total_tags == Len(SelectSeq(tagged_words(FALSE),
                                    LAMBDA pair : pair[2] \in tags_to_search))
        total_words == Len(tagged_words(FALSE))
    IN  IF total_words = 0
        THEN Raised("ZeroDivisionError")
        ELSE Returned(round3(total_tags * 100, total_words))

\* TextClassifier.calculate_words_frequency
calculate_words_frequency(words_to_search) ==
    LET total_peculiar_words == Len(SelectSeq(words(FALSE),
                                              LAMBDA word : word \in words_to_search))
        total_words == Len(words(FALSE))
    IN  IF total_words = 0
        THEN Raised("ZeroDivisionError")
        ELSE Returned(round3(total_peculiar_words * 1000, total_words))

\* A plausible slip: the lemmas are compared as they are, not lower-cased.
type_token_word_list_no_lower == words(TRUE)

\* line 194: [word.lower() for word in self.words(lemmatized=True)]
type_token_word_list == [i \in 1..Len(words(TRUE)) |-> lower(words(TRUE)[i])]

\* TextClassifier.calculate_type_token_ratio
calculate_type_token_ratio ==
    LET word_list == type_token_word_list
        types == {word_list[i] : i \in 1..Len(word_list)}
    IN  IF Len(word_list) = 0
        THEN Raised("ZeroDivisionError")
        ELSE Returned(rat_norm(<<Cardinality(types), Len(word_list)>>))

\* The characters of the document, in order.
RECURSIVE chars_of(_)
chars_of(tokens) == IF tokens = <<>> THEN <<>> ELSE Head(tokens) \o chars_of(Tail(tokens))

\* TextClassifier.has_peculiar_expression, for an expression of letters only:
\* a case-insensitive search of the expression anywhere in the document
has_peculiar_expression(expression) ==
    LET hay == lower(chars_of(text))
        pat == lower(expression)
    IN  Returned(\E i \in 1..(Len(hay) - Len(pat) + 1) :
                     SubSeq(hay, i, i + Len(pat) - 1) = pat)

(***************************************************************************)
(* The state machine: one instance and the calls made on it                *)
(***************************************************************************)
\* The arguments the calls are made with.
SyllableWords == {w_Yx, w_ye, w_Our, w_dot}
TagChoices == {{}, {"VB", "VBD", "VBN"}, TagSet}
WordChoices == {{}, {w_was, w_dot}}
Expressions == {w_be}

ViewNames == {"sents", "tagged_sents", "words", "tagged_words"}

NoCall == [op |-> "none", arg |-> FALSE, val |-> <<>>, exc |-> "none", again |-> FALSE]

\* A call with what it handed back.  again: the call repeats the first view call
\* of the instance, and a different call was made just before it.
Call(op, arg, r) ==
    [op |-> op, arg |-> arg, val |-> r.val, exc |-> r.exc,
     again |-> /\ first.op = op
               /\ first.arg = arg
               /\ ~(last.op = op /\ last.arg = arg)]

\* After TextClassifier(text): nothing called yet.
Init ==
    /\ text \in Documents
    /\ first = NoCall
    /\ last = NoCall

\* A plausible slip: a lemmatized view stores its tokens back as the document.
ViewWritingBack(op, lemmatized, result) ==
    /\ last' = Call(op, lemmatized, Returned(result))
    /\ first' = IF first.op = "none" THEN last' ELSE first
    /\ text' = IF lemmatized THEN words(TRUE) ELSE text

\* A view is called and consumed to its end; the document is only read.
View(op, lemmatized, result) ==
    /\ last' = Call(op, lemmatized, Returned(result))
    /\ first' = IF first.op = "none" THEN last' ELSE first
    /\ UNCHANGED text

\* A metric is called; the document is only read.
Metric(op, arg, r) ==
    /\ last' = Call(op, arg, r)
    /\ UNCHANGED <<text, first>>

Call_sents == \E lemmatized \in BOOLEAN : View("sents", lemmatized, sents(lemmatized))

Call_tagged_sents ==
    \E lemmatized \in BOOLEAN : View("tagged_sents", lemmatized, tagged_sents(lemmatized))

Call_words == \E lemmatized \in BOOLEAN : View("words", lemmatized, words(lemmatized))

Call_tagged_words ==
    \E lemmatized \in BOOLEAN : View("tagged_words", lemmatized, tagged_words(lemmatized))

Call_has_peculiar_expression ==
    \E expression \in Expressions :
        Metric("has_peculiar_expression", expression, has_peculiar_expression(expression))

Call_count_syllables ==
    \E word \in SyllableWords :
        Metric("count_syllables", word, Returned(count_syllables(word)))

Call_calculate_sentence_reading_ease ==
    Metric("calculate_sentence_reading_ease", FALSE, calculate_sentence_reading_ease)

Call_calculate_lexical_density_by_tags ==
    \E tags_to_search \in TagChoices :
        Metric("calculate_lexical_density_by_tags", tags_to_search,
               calculate_lexical_density_by_tags(tags_to_search))

Call_calculate_words_frequency ==
    \E words_to_search \in WordChoices :
        Metric("calculate_words_frequency", words_to_search,
               calculate_words_frequency(words_to_search))

Call_calculate_type_token_ratio ==
    Metric("calculate_type_token_ratio", FALSE, calculate_type_token_ratio)

Next ==
    \/ Call_sents
    \/ Call_tagged_sents
    \/ Call_words
    \/ Call_tagged_words
    \/ Call_has_peculiar_expression
    \/ Call_count_syllables
    \/ Call_calculate_sentence_reading_ease
    \/ Call_calculate_lexical_density_by_tags
    \/ Call_calculate_words_frequency
    \/ Call_calculate_type_token_ratio

Spec == Init /\ [][Next]_vars

(***************************************************************************)
(* Properties                                                              *)
(***************************************************************************)
RECURSIVE Flat(_)
Flat(ss) == IF ss = <<>> THEN <<>> ELSE Head(ss) \o Flat(Tail(ss))

\* The first call of a view was a, and the most recent call is b.
Made(a_op, a_arg, b_op, b_arg) ==
    /\ first.op = a_op
    /\ first.arg = a_arg
    /\ last.op = b_op
    /\ last.arg = b_arg

\* The calls a and b have both been made, one first and the other last.
Both(a_op, a_arg, b_op, b_arg) ==
    \/ Made(a_op, a_arg, b_op, b_arg)
    \/ Made(b_op, b_arg, a_op, a_arg)

\* What the call (op, arg) handed back, when it is the first or the last call.
ValOf(op, arg) == IF first.op = op /\ first.arg = arg THEN first.val ELSE last.val

\* The tokens of a view's result, in order, without sentence bounds and tags.
TokensOf(op, val) ==
    CASE op = "words" -> val
      [] op = "sents" -> Flat(val)
      [] op = "tagged_words" -> [i \in 1..Len(val) |-> val[i][1]]
      [] op = "tagged_sents" -> [i \in 1..Len(Flat(val)) |-> Flat(val)[i][1]]

\* The tags of a tagged view's result, in order.
TagsOf(op, val) ==
    CASE op = "tagged_words" -> [i \in 1..Len(val) |-> val[i][2]]
      [] op = "tagged_sents" -> [i \in 1..Len(Flat(val)) |-> Flat(val)[i][2]]

ZeroWords == words(FALSE) = <<>>

EmptyDocumentMetrics ==
    {"calculate_lexical_density_by_tags", "calculate_words_frequency",
     "calculate_type_token_ratio"}

\* C1: on a document with zero words, calculate_lexical_density_by_tags,
\* calculate_words_frequency and calculate_type_token_ratio each fail with an
\* explicit "empty input" error, not with a division-by-zero fault.
C1_EmptyInputError ==
    (last.op \in EmptyDocumentMetrics /\ ZeroWords) => last.exc = "EmptyInputError"

\* C2: the number of elements of words() is the sum of the lengths of the
\* sentences of sents(), with the same lemmatized argument.
C2_WordsCountIsSentsTotal ==
    \A lemmatized \in BOOLEAN :
        Both("sents", lemmatized, "words", lemmatized) =>
            LET ss == ValOf("sents", lemmatized)
                ws == ValOf("words", lemmatized)
            IN  Len(ws) = sum([i \in 1..Len(ss) |-> Len(ss[i])])

\* sents() and words() were both called on a document of two sentences or
\* more, one of them with two tokens or more.
C2_Witness ==
    /\ Both("sents", FALSE, "words", FALSE)
    /\ Len(ValOf("sents", FALSE)) >= 2
    /\ \E i \in 1..Len(ValOf("sents", FALSE)) : Len(ValOf("sents", FALSE)[i]) >= 2

\* C3: a view called again with the arguments of the first view call hands
\* back the same sequence, whatever views and metrics were called in between.
C3_ViewsRepeatable ==
    (last.op \in ViewNames /\ last.op = first.op /\ last.arg = first.arg) =>
        /\ last.exc = "none"
        /\ last.val = first.val

\* A lemmatized view was called first, other calls followed, and the same
\* view was called again on a document of two tokens or more.
C3_Witness ==
    /\ last.again
    /\ last.op \in ViewNames
    /\ last.arg = TRUE
    /\ Len(TokensOf(last.op, last.val)) >= 2
    /\ TokensOf(last.op, last.val) # words(FALSE)

\* The sum of f over a finite set.
RECURSIVE SetSum(_, _)
SetSum(f(_), S) ==
    IF S = {} THEN 0 ELSE LET x == CHOOSE y \in S : TRUE IN f(x) + SetSum(f, S \ {x})

\* The product of f over a finite set.
RECURSIVE SetProd(_, _)
SetProd(f(_), S) ==
    IF S = {} THEN 1 ELSE LET x == CHOOSE y \in S : TRUE IN f(x) * SetProd(f, S \ {x})

\* The number of stress-marked phonemes of the first variant of a dictionary
\* word, or else the number of vowel letters, of the lower-cased word.
SyllablesOf(word) ==
    LET w == lower(word)
    IN  IF w \in DOMAIN p_dict
        THEN Cardinality({i \in 1..Len(p_dict[w][1]) :
                             p_dict[w][1][i][Len(p_dict[w][1][i])] \in {"0", "1", "2"}})
        ELSE Cardinality({i \in 1..Len(w) : w[i] \in {"a", "e", "i", "o", "u", "y"}})

\* C4: count_syllables(word) is the number of phonemes ending in a digit of the
\* first pronunciation of the lower-cased word when the dictionary has it, and
\* else the number of its characters among a, e, i, o, u, y; it is a natural
\* number and nothing is raised.
C4_CountSyllables ==
    last.op = "count_syllables" =>
        /\ last.exc = "none"
        /\ last.val \in Nat
        /\ last.val = SyllablesOf(last.arg)

\* count_syllables was called with a word the dictionary lacks, whose only
\* vowel is an upper-case Y.
C4_Witness ==
    /\ last.op = "count_syllables"
    /\ last.arg = w_Yx
    /\ lower(last.arg) \notin DOMAIN p_dict
    /\ last.val = 1

\* The positions of the alphabetic-only tokens of a sentence.
AlphaAt(sent) == {j \in 1..Len(sent) : isalpha(sent[j])}

\* 1000 * n * (206.835 - 1.015 * n - 84.6 * (s / n)) of a sentence
ScoreNumerator(sent) ==
    LET n == Cardinality(AlphaAt(sent))
        syl(j) == SyllablesOf(sent[j])
    IN  206835 * n - 1015 * n * n - 84600 * SetSum(syl, AlphaAt(sent))

\* C5: calculate_sentence_reading_ease is the sum, over the sentences of
\* sents() with an alphabetic-only token, of 206.835 - 1.015*n - 84.6*(s/n);
\* the other sentences add nothing, nothing is raised, and a document without
\* sentences gives 0.
C5_ReadingEaseIsSumOfSentenceScores ==
    last.op = "calculate_sentence_reading_ease" =>
        LET ss == sents(FALSE)
            scored == {i \in 1..Len(ss) : AlphaAt(ss[i]) # {}}
            n(i) == Cardinality(AlphaAt(ss[i]))
            D == 1000 * SetProd(n, scored)
            term(i) == ScoreNumerator(ss[i]) * (D \div (1000 * n(i)))
        IN  /\ last.exc = "none"
            /\ last.val[2] > 0
            /\ last.val[1] * D = last.val[2] * SetSum(term, scored)
            /\ (ss = <<>> => last.val = <<0, 1>>)

\* The reading ease was computed on a document with two scored sentences, one
\* of which also holds a token that is not alphabetic.
C5_Witness ==
    /\ last.op = "calculate_sentence_reading_ease"
    /\ Cardinality({i \in 1..Len(sents(FALSE)) : AlphaAt(sents(FALSE)[i]) # {}}) = 2
    /\ \E i \in 1..Len(sents(FALSE)) :
           AlphaAt(sents(FALSE)[i]) \notin {{}, 1..Len(sents(FALSE)[i])}

\* The reading ease was computed on a document with a sentence that has no
\* alphabetic token and a sentence that has one.
C5_UnscoredSentenceReached ==
    /\ last.op = "calculate_sentence_reading_ease"
    /\ \E i \in 1..Len(sents(FALSE)) : AlphaAt(sents(FALSE)[i]) = {}
    /\ \E i \in 1..Len(sents(FALSE)) : AlphaAt(sents(FALSE)[i]) # {}

\* C6: on a document with a word, calculate_lexical_density_by_tags(tags) is
\* m / t * 100 rounded to three decimals, t the number of tagged words and m
\* the number of them tagged in tags; so m <= t, the result is within 0..100,
\* and it is 0 for no tags.  (The result is held in thousandths.)
C6_LexicalDensity ==
    (last.op = "calculate_lexical_density_by_tags" /\ ~ZeroWords) =>
        LET tw == tagged_words(FALSE)
            t == Len(tw)
            m == Cardinality({i \in 1..t : tw[i][2] \in last.arg})
        IN  /\ last.exc = "none"
            /\ m <= t
            /\ 2 * abs(last.val * t - m * 100 * 1000) <= t
            /\ last.val \in 0..(100 * 1000)
            /\ (last.arg = {} => last.val = 0)

\* The lexical density came out as 33.333: one matching tag among three words.
C6_Witness ==
    /\ last.op = "calculate_lexical_density_by_tags"
    /\ Len(tagged_words(FALSE)) = 3
    /\ last.val = 33333

\* C7: on a document with a word, calculate_type_token_ratio is the number of
\* distinct lower-cased lemmatized words over the number of lemmatized words;
\* it is above 0, at most 1, and 1 exactly when no lower-cased lemma repeats.
C7_TypeTokenRatio ==
    (last.op = "calculate_type_token_ratio" /\ ~ZeroWords) =>
        LET ws == words(TRUE)
            types == {lower(ws[i]) : i \in 1..Len(ws)}
            repeats == \E i, j \in 1..Len(ws) : i < j /\ lower(ws[i]) = lower(ws[j])
        IN  /\ last.exc = "none"
            /\ last.val[2] > 0
            /\ last.val[1] * Len(ws) = last.val[2] * Cardinality(types)
            /\ last.val[1] > 0
            /\ last.val[1] <= last.val[2]
            /\ (last.val[1] = last.val[2]) <=> ~repeats

\* The ratio is 1/2 on two lemmas that differ only in case.
C7_Witness ==
    /\ last.op = "calculate_type_token_ratio"
    /\ Len(words(TRUE)) = 2
    /\ words(TRUE)[1] # words(TRUE)[2]
    /\ last.val = <<1, 2>>

\* The verb lemma where it differs from the word, and else the noun lemma.
LemmaRule(word) ==
    IF wordnet_lemmatize(word, "v") # word
    THEN wordnet_lemmatize(word, "v")
    ELSE wordnet_lemmatize(word, "n")

\* C8: the lemma of a word is the lemmatizer's verb result when that differs
\* from the word and its noun result otherwise, and each lemmatized view holds,
\* token for token, these lemmas of the tokens of the view that is not
\* lemmatized.
C8_LemmaIsVerbElseNoun ==
    \A op \in ViewNames :
        Both(op, FALSE, op, TRUE) =>
            LET surface == TokensOf(op, ValOf(op, FALSE))
                lemmas == TokensOf(op, ValOf(op, TRUE))
            IN  /\ Len(lemmas) = Len(surface)
                /\ \A i \in 1..Len(surface) : lemmas[i] = LemmaRule(surface[i])

\* A view was called both ways on a document holding a word whose verb and
\* noun lemmas both differ from it, and a word with a noun lemma only.
C8_Witness ==
    /\ Both("tagged_sents", FALSE, "tagged_sents", TRUE)
    /\ \E i \in 1..Len(words(FALSE)) :
           /\ words(FALSE)[i] = w_was
           /\ wordnet_lemmatize(w_was, "n") \notin {w_was, wordnet_lemmatize(w_was, "v")}
           /\ TokensOf("tagged_sents", ValOf("tagged_sents", TRUE))[i] = w_be
    /\ \E i \in 1..Len(words(FALSE)) :
           /\ words(FALSE)[i] = w_as
           /\ TokensOf("tagged_sents", ValOf("tagged_sents", TRUE))[i] = w_a

\* C9: tagged_words(lemmatized=True) has the length and, position by position,
\* the tags of tagged_words(lemmatized=False); the tokens of
\* tagged_words(lemmatized) are the sequence words(lemmatized), for either
\* value of lemmatized.
C9_TagsAreOfSurfaceTokens ==
    /\ Both("tagged_words", FALSE, "tagged_words", TRUE) =>
           LET plain == ValOf("tagged_words", FALSE)
               lemmas == ValOf("tagged_words", TRUE)
           IN  /\ Len(lemmas) = Len(plain)
               /\ TagsOf("tagged_words", lemmas) = TagsOf("tagged_words", plain)
    /\ \A lemmatized \in BOOLEAN :
           Both("tagged_words", lemmatized, "words", lemmatized) =>
               TokensOf("tagged_words", ValOf("tagged_words", lemmatized))
                   = ValOf("words", lemmatized)

\* tagged_words was called both ways on a document where a lemma, tagged in
\* the place of its word, would get another tag.
C9_Witness ==
    /\ Both("tagged_words", FALSE, "tagged_words", TRUE)
    /\ \E i \in 1..Len(ValOf("tagged_words", TRUE)) :
           LET pair == ValOf("tagged_words", TRUE)[i]
           IN  /\ pair[1] # ValOf("tagged_words", FALSE)[i][1]
               /\ tag_of(<<>>, pair[1]) # pair[2]

\* tagged_words and words were both called lemmatized on a document holding a
\* word that its lemma replaces.
C9_TokensWitness ==
    /\ Both("tagged_words", TRUE, "words", TRUE)
    /\ ValOf("words", TRUE) # words(FALSE)

\* C10: every token of a view that is not lemmatized is a non-empty string
\* without leading or trailing whitespace, and the tokens of the view are, in
\* order, the tokens of the document that are not whitespace only.
C10_TokensAreStripped ==
    (last.op \in ViewNames /\ last.arg = FALSE) =>
        LET tokens == TokensOf(last.op, last.val)
            kept == SelectSeq(text, LAMBDA raw : \E i \in 1..Len(raw) : raw[i] \notin Whitespace)
        IN  /\ \A i \in 1..Len(tokens) :
                   /\ tokens[i] # <<>>
                   /\ tokens[i][1] \notin Whitespace
                   /\ tokens[i][Len(tokens[i])] \notin Whitespace
            /\ Len(tokens) = Len(kept)
            /\ \A i \in 1..Len(kept) :
                   \E a, b \in 0..Len(kept[i]) : kept[i] = SubSeq(kept[i], 1, a) \o tokens[i]
                                                     \o SubSeq(kept[i], Len(kept[i]) - b + 1,
                                                               Len(kept[i]))

\* A tagged view was called on a document with a whitespace-only token before
\* a padded token and another token.
C10_Witness ==
    /\ last.op = "tagged_sents"
    /\ last.arg = FALSE
    /\ Len(text) = 3
    /\ text[1] = w_blank
    /\ text[2] = w_padded_as
    /\ TokensOf(last.op, last.val) = <<w_as, strip(text[3])>>

====
